---------------------------- MODULE Spec2Model ----------------------------
(***************************************************************************)
(* A model of the CHIP-8 emulator driver of src/bin/main.rs (key_map,      *)
(* render::chip_loop, EasyCursesRenderer::handle_input, mode::RunMode,     *)
(* run::emulation) together with the libchip8 core it drives.  The core    *)
(* (libchip8::emulator, cpu, display, input, loader) is not part of the    *)
(* sources at hand; its operations are modelled from the specification     *)
(* document and are marked "core" below.                                   *)
(*                                                                         *)
(* Option<T> values are modelled as sequences: <<>> is None, <<v>> is      *)
(* Some(v).  Time is counted in units of 1/120 s.                          *)
(***************************************************************************)
EXTENDS Integers, Sequences, FiniteSets, TLC

(***************************************************************************)
(* Bounds of the model                                                     *)
(***************************************************************************)
\* number of characters of MAPPING (from its start) the user may type
MaxTypedKeys == 2

(***************************************************************************)
(* Program constants                                                       *)
(***************************************************************************)
\* key_map::MAPPING: the i-th character is the key mapped to chip-8 key i
MAPPING == <<"x", "1", "2", "3", "q", "w", "e", "a", "s", "d", "z", "c", "4", "r", "f", "v">>

\* Duration::new(1, 0): one second, in the model's clock unit (1/120 s)
OneSecond == 120
\* frame_target_duration = Duration::new(1, 0).checked_div(120)
FrameTargetDuration == OneSecond \div 120
\* min_press_durarion = Duration::new(1, 0).checked_div(20)
MinPressDuration == OneSecond \div 20

\* core: sizes of the machine
MemSize == 4096
ProgramOrigin == 512
FontOrigin == 80
StackSize == 16
NumKeys == 16
NumRegs == 16
COLS == 64
ROWS == 32

None == <<>>
Some(v) == <<v>>
IsSome(o) == o # <<>>
Unwrap(o) == o[1]

(***************************************************************************)
(* key_map                                                                 *)
(***************************************************************************)
\* MAPPING.chars().nth(idx)
map_base16_to_key(idx) ==
    IF idx + 1 \in DOMAIN MAPPING THEN Some(MAPPING[idx + 1]) ELSE None

\* MAPPING.char_indices().find(|(_, c)| *c == k).map(|(idx, _)| idx)
map_key_to_base16(k) ==
    LET hits == {i \in DOMAIN MAPPING : MAPPING[i] = k}
    IN  IF hits = {} THEN None
        ELSE Some((CHOOSE i \in hits : \A j \in hits : i <= j) - 1)

(***************************************************************************)
(* mode::RunMode                                                           *)
(***************************************************************************)
\* RunMode::from as it would be if it looked for the flag "-s"
RunModeFrom_ByContent(s) == IF s = Some("-s") THEN "Stepwise" ELSE "Normal"

\* impl From<Option<&String>> for RunMode
RunModeFrom(s) == IF s = None THEN "Normal" ELSE "Stepwise"

\* EasyCursesRenderer::new as it would be with the non-blocking poll in both
\* modes
TimeoutModeOf_AlwaysImmediate(rm) == "Immediate"

\* EasyCursesRenderer::new: the input timeout chosen for the run mode
TimeoutModeOf(rm) == IF rm = "Stepwise" THEN "Never" ELSE "Immediate"

(***************************************************************************)
(* core: bit arithmetic on bytes                                           *)
(***************************************************************************)
Pow2(i) == CASE i = 0 -> 1 [] i = 1 -> 2 [] i = 2 -> 4 [] i = 3 -> 8
             [] i = 4 -> 16 [] i = 5 -> 32 [] i = 6 -> 64 [] i = 7 -> 128
             [] OTHER -> 256

Bit(v, i) == (v \div Pow2(i)) % 2

RECURSIVE BitSum(_, _, _, _)
\* sum over bits i..7 of 2^i * f[bit i of a, bit i of b]
BitSum(f, a, b, i) ==
    IF i > 7 THEN 0
    ELSE Pow2(i) * f[Bit(a, i) + 1][Bit(b, i) + 1] + BitSum(f, a, b, i + 1)

Or8(a, b)  == BitSum(<<<<0, 1>>, <<1, 1>>>>, a, b, 0)
And8(a, b) == BitSum(<<<<0, 0>>, <<0, 1>>>>, a, b, 0)
Xor8(a, b) == BitSum(<<<<0, 1>>, <<1, 0>>>>, a, b, 0)

(***************************************************************************)
(* core: the decoder.  decode(raw) is total: an opcode matching no known   *)
(* pattern decodes to Unknown(raw).                                        *)
(***************************************************************************)
Instr(op, raw) ==
    [op |-> op, raw |-> raw,
     x |-> (raw \div 256) % 16, y |-> (raw \div 16) % 16,
     n |-> raw % 16, kk |-> raw % 256, nnn |-> raw % 4096]

OpName(raw) ==
    LET hi == raw \div 4096
        n  == raw % 16
        kk == raw % 256
    IN  CASE raw = 224 -> "CLS"
          [] raw = 238 -> "RET"
          [] hi = 1 -> "JP"
          [] hi = 2 -> "CALL"
          [] hi = 3 -> "SE_VX_KK"
          [] hi = 4 -> "SNE_VX_KK"
          [] hi = 5 /\ n = 0 -> "SE_VX_VY"
          [] hi = 6 -> "LD_VX_KK"
          [] hi = 7 -> "ADD_VX_KK"
          [] hi = 8 /\ n = 0 -> "LD_VX_VY"
          [] hi = 8 /\ n = 1 -> "OR"
          [] hi = 8 /\ n = 2 -> "AND"
          [] hi = 8 /\ n = 3 -> "XOR"
          [] hi = 8 /\ n = 4 -> "ADD"
          [] hi = 8 /\ n = 5 -> "SUB"
          [] hi = 8 /\ n = 6 -> "SHR"
          [] hi = 8 /\ n = 7 -> "SUBN"
          [] hi = 8 /\ n = 14 -> "SHL"
          [] hi = 9 /\ n = 0 -> "SNE_VX_VY"
          [] hi = 10 -> "LD_I"
          [] hi = 11 -> "JP_V0"
          [] hi = 12 -> "RND"
          [] hi = 13 -> "DRW"
          [] hi = 14 /\ kk = 158 -> "SKP"
          [] hi = 14 /\ kk = 161 -> "SKNP"
          [] hi = 15 /\ kk = 7 -> "LD_VX_DT"
          [] hi = 15 /\ kk = 10 -> "LD_VX_K"
          [] hi = 15 /\ kk = 21 -> "LD_DT_VX"
          [] hi = 15 /\ kk = 24 -> "LD_ST_VX"
          [] hi = 15 /\ kk = 30 -> "ADD_I_VX"
          [] hi = 15 /\ kk = 41 -> "LD_F_VX"
          [] hi = 15 /\ kk = 51 -> "LD_B_VX"
          [] hi = 15 /\ kk = 85 -> "LD_I_VX"
          [] hi = 15 /\ kk = 101 -> "LD_VX_I"
          [] OTHER -> "Unknown"

decode(raw) == Instr(OpName(raw), raw)

\* Instruction::to_instr: the raw opcode kept for rendering
to_instr(instr) == instr.raw

(***************************************************************************)
(* core: the Emulator aggregate.  An emulator value is a record            *)
(*   mem   : 0..4095 -> byte        regs  : 0..15 -> byte (V0..VF)         *)
(*   i, pc : 16-bit                 sp    : 0..16,  stack : 0..15 -> addr  *)
(*   scr   : the set of lit pixels <<x, y>> of the 64x32 display           *)
(*   kbd   : 0..15 -> BOOLEAN       key   : the tracked key (an Option)    *)
(*   dt, st: the delay and sound timers                                    *)
(***************************************************************************)
\* Emulator::new()
NewEmulator ==
    [mem   |-> [a \in 0..(MemSize - 1) |-> 0],
     regs  |-> [r \in 0..(NumRegs - 1) |-> 0],
     i     |-> 0,
     pc    |-> ProgramOrigin,
     sp    |-> 0,
     stack |-> [k \in 0..(StackSize - 1) |-> 0],
     scr   |-> {},
     kbd   |-> [k \in 0..(NumKeys - 1) |-> FALSE],
     key   |-> None,
     dt    |-> 0,
     st    |-> 0]

\* the 16 built-in hex-digit sprites, 5 bytes each
FONT ==
    << 240, 144, 144, 144, 240,    32,  96,  32,  32, 112,
       240,  16, 240, 128, 240,   240,  16, 240,  16, 240,
       144, 144, 240,  16,  16,   240, 128, 240,  16, 240,
       240, 128, 240, 144, 240,   240,  16,  32,  64,  64,
       240, 144, 240, 144, 240,   240, 144, 240,  16, 240,
       240, 144, 240, 144, 144,   224, 144, 224, 144, 224,
       240, 128, 128, 128, 240,   224, 144, 144, 144, 224,
       240, 128, 240, 128, 240,   240, 128, 240, 128, 128 >>

\* copy a byte sequence (a ROM image, the font) into memory starting at origin
WriteBytes(mem, origin, bytes) ==
    [a \in DOMAIN mem |->
        IF a >= origin /\ a < origin + Len(bytes) THEN bytes[a - origin + 1]
        ELSE mem[a]]

RECURSIVE WriteFrom(_, _, _, _)
\* the byte-by-byte write of an instruction: bytes[k..] go to origin + k - 1 ..
WriteFrom(mem, origin, bytes, k) ==
    IF k > Len(bytes) THEN mem
    ELSE WriteFrom([mem EXCEPT ![origin + k - 1] = bytes[k]], origin, bytes, k + 1)

\* loader::load: the ROM image goes to 0x200; RomTooLarge when it does not fit
load(c, bytes) ==
    IF ProgramOrigin + Len(bytes) > MemSize
    THEN [ch |-> c, res |-> "RomTooLarge"]
    ELSE [ch |-> [c EXCEPT !.mem = WriteBytes(c.mem, ProgramOrigin, bytes)],
          res |-> "Ok"]

\* Emulator::store_font
store_font(c) == [c EXCEPT !.mem = WriteBytes(c.mem, FontOrigin, FONT)]

\* Emulator::fetch: the opcode at PC, big-endian, decoded; PC is not changed.
\* None when the two bytes are not both inside memory.
fetch(c) ==
    IF c.pc + 1 >= MemSize THEN None
    ELSE Some(decode(c.mem[c.pc] * 256 + c.mem[c.pc + 1]))

\* Timers: the value after one tick
TimerDown(t) == IF t > 0 THEN t - 1 ELSE 0

\* Emulator::tick: returns (delay, sound), then counts each nonzero timer down
tick(c) ==
    [ch  |-> [c EXCEPT !.dt = TimerDown(c.dt), !.st = TimerDown(c.st)],
     ret |-> <<c.dt, c.st>>]

\* Emulator::key_pressed(previously tracked key, new key)
key_pressed(c, prev, newk) ==
    LET released == IF IsSome(prev)
                    THEN [c.kbd EXCEPT ![Unwrap(prev)] = FALSE]
                    ELSE c.kbd
    IN  [c EXCEPT !.kbd = [released EXCEPT ![newk] = TRUE], !.key = Some(newk)]

\* Emulator::key_released()
key_released(c) ==
    [c EXCEPT !.kbd = IF IsSome(c.key) THEN [c.kbd EXCEPT ![Unwrap(c.key)] = FALSE]
                      ELSE c.kbd,
              !.key = None]

(***************************************************************************)
(* core: exec.  The result is [ch |-> the emulator afterwards, res |-> "Ok" *)
(* or the fault].  A fault leaves the emulator as it was.                  *)
(***************************************************************************)
Word(v) == v % 65536
Byte(v) == v % 256

Ok(c) == [ch |-> c, res |-> "Ok"]
Fault(c, f) == [ch |-> c, res |-> f]

\* the default advance as it would be counting opcodes, not bytes
Advance_ByOne(c) == [c EXCEPT !.pc = Word(c.pc + 1)]

\* the default advance, and the conditional skip of SE/SNE/SKP/SKNP
Advance(c) == [c EXCEPT !.pc = Word(c.pc + 2)]
SkipIf(c, cond) == [c EXCEPT !.pc = Word(c.pc + (IF cond THEN 4 ELSE 2))]

\* Vx := v, then the default advance
SetReg(c, x, v) == Advance([c EXCEPT !.regs[x] = Byte(v)])
\* Vx := v and VF := flag (VF is written last), then the default advance
SetRegFlag(c, x, v, flag) ==
    Advance([c EXCEPT !.regs = [[c.regs EXCEPT ![x] = Byte(v)] EXCEPT ![15] = flag]])

\* RET as it would be with PC advanced before the stack is looked at
ExecRet_AdvanceFirst(c) ==
    IF c.sp = 0 THEN Fault(Advance(c), "StackUnderflow")
    ELSE Ok([c EXCEPT !.sp = c.sp - 1, !.pc = c.stack[c.sp - 1]])

\* RET
ExecRet(c) ==
    IF c.sp = 0 THEN Fault(c, "StackUnderflow")
    ELSE Ok([c EXCEPT !.sp = c.sp - 1, !.pc = c.stack[c.sp - 1]])

\* CALL as it would be pushing the address of the CALL itself
ExecCall_PushesOwnAddress(c, addr) ==
    IF c.sp = StackSize THEN Fault(c, "StackOverflow")
    ELSE Ok([c EXCEPT !.stack[c.sp] = c.pc, !.sp = c.sp + 1, !.pc = addr])

\* CALL addr
ExecCall(c, addr) ==
    IF c.sp = StackSize THEN Fault(c, "StackOverflow")
    ELSE Ok([c EXCEPT !.stack[c.sp] = Word(c.pc + 2), !.sp = c.sp + 1, !.pc = addr])

\* JP addr and JP V0, addr
ExecJp(c, addr) == Ok([c EXCEPT !.pc = addr])
ExecJpV0(c, addr) == Ok([c EXCEPT !.pc = Word(addr + c.regs[0])])

\* Display::draw: XOR the sprite rows into the frame buffer, coordinates wrap;
\* the result is the new set of lit pixels and whether a lit pixel was unset
SpritePixels(x, y, rows) ==
    {<<(x + b) % COLS, (y + r - 1) % ROWS>> :
        <<r, b>> \in {rb \in (DOMAIN rows) \X (0..7) : Bit(rows[rb[1]], 7 - rb[2]) = 1}}

draw(scr, x, y, rows) ==
    LET sp == SpritePixels(x, y, rows)
    IN  [scr |-> (scr \ sp) \cup (sp \ scr), collision |-> (scr \cap sp) # {}]

\* DRW Vx, Vy, n
ExecDrw(c, x, y, n) ==
    IF n > 0 /\ c.i + n - 1 >= MemSize THEN Fault(c, "AddressOutOfRange")
    ELSE LET rows == [r \in 1..n |-> c.mem[c.i + r - 1]]
             d == draw(c.scr, c.regs[x], c.regs[y], rows)
         IN  Ok(Advance([c EXCEPT !.scr = d.scr,
                                  !.regs[15] = IF d.collision THEN 1 ELSE 0]))

\* the keys currently down
KeysDown(kbd) == {k \in DOMAIN kbd : kbd[k]}

\* LD Vx, K (FX0A): no key down: PC stays; else Vx := the key, PC advances
ExecWaitKey(c, x) ==
    IF KeysDown(c.kbd) = {} THEN Ok(c)
    ELSE Ok(SetReg(c, x, CHOOSE k \in KeysDown(c.kbd) : \A j \in KeysDown(c.kbd) : k <= j))

\* LD B, Vx (FX33): the BCD digits of Vx at I, I+1, I+2
ExecBcd(c, x) ==
    IF c.i + 2 >= MemSize THEN Fault(c, "AddressOutOfRange")
    ELSE Ok(Advance([c EXCEPT !.mem = WriteFrom(c.mem, c.i,
                <<c.regs[x] \div 100, (c.regs[x] \div 10) % 10, c.regs[x] % 10>>, 1)]))

RECURSIVE RegBytes(_, _)
\* the sequence V0..Vx
RegBytes(regs, x) == IF x < 0 THEN <<>> ELSE Append(RegBytes(regs, x - 1), regs[x])

\* LD [I], Vx (FX55): V0..Vx to memory at I
ExecDump(c, x) ==
    IF c.i + x >= MemSize THEN Fault(c, "AddressOutOfRange")
    ELSE Ok(Advance([c EXCEPT !.mem = WriteFrom(c.mem, c.i, RegBytes(c.regs, x), 1)]))

\* LD Vx, [I] (FX65): V0..Vx from memory at I
ExecLoad(c, x) ==
    IF c.i + x >= MemSize THEN Fault(c, "AddressOutOfRange")
    ELSE Ok(Advance([c EXCEPT !.regs = [r \in DOMAIN c.regs |->
                IF r <= x THEN c.mem[c.i + r] ELSE c.regs[r]]]))

\* Emulator::exec(instr); rnd is the byte the random source delivers
exec(c, instr, rnd) ==
    LET x  == instr.x
        y  == instr.y
        vx == c.regs[instr.x]
        vy == c.regs[instr.y]
        op == instr.op
    IN  CASE op = "CLS" -> Ok(Advance([c EXCEPT !.scr = {}]))
          [] op = "RET" -> ExecRet(c)
          [] op = "JP" -> ExecJp(c, instr.nnn)
          [] op = "CALL" -> ExecCall(c, instr.nnn)
          [] op = "SE_VX_KK" -> Ok(SkipIf(c, vx = instr.kk))
          [] op = "SNE_VX_KK" -> Ok(SkipIf(c, vx # instr.kk))
          [] op = "SE_VX_VY" -> Ok(SkipIf(c, vx = vy))
          [] op = "SNE_VX_VY" -> Ok(SkipIf(c, vx # vy))
          [] op = "LD_VX_KK" -> Ok(SetReg(c, x, instr.kk))
          [] op = "ADD_VX_KK" -> Ok(SetReg(c, x, vx + instr.kk))
          [] op = "LD_VX_VY" -> Ok(SetReg(c, x, vy))
          [] op = "OR" -> Ok(SetReg(c, x, Or8(vx, vy)))
          [] op = "AND" -> Ok(SetReg(c, x, And8(vx, vy)))
          [] op = "XOR" -> Ok(SetReg(c, x, Xor8(vx, vy)))
          [] op = "ADD" -> Ok(SetRegFlag(c, x, vx + vy, IF vx + vy > 255 THEN 1 ELSE 0))
          [] op = "SUB" -> Ok(SetRegFlag(c, x, vx - vy + 256, IF vx >= vy THEN 1 ELSE 0))
          [] op = "SUBN" -> Ok(SetRegFlag(c, x, vy - vx + 256, IF vy >= vx THEN 1 ELSE 0))
          [] op = "SHR" -> Ok(SetRegFlag(c, x, vx \div 2, vx % 2))
          [] op = "SHL" -> Ok(SetRegFlag(c, x, vx * 2, vx \div 128))
          [] op = "LD_I" -> Ok(Advance([c EXCEPT !.i = instr.nnn]))
          [] op = "JP_V0" -> ExecJpV0(c, instr.nnn)
          [] op = "RND" -> Ok(SetReg(c, x, And8(rnd, instr.kk)))
          [] op = "DRW" -> ExecDrw(c, x, y, instr.n)
          [] op = "SKP" -> Ok(SkipIf(c, c.kbd[vx % NumKeys]))
          [] op = "SKNP" -> Ok(SkipIf(c, ~c.kbd[vx % NumKeys]))
          [] op = "LD_VX_DT" -> Ok(SetReg(c, x, c.dt))
          [] op = "LD_VX_K" -> ExecWaitKey(c, x)
          [] op = "LD_DT_VX" -> Ok(Advance([c EXCEPT !.dt = vx]))
          [] op = "LD_ST_VX" -> Ok(Advance([c EXCEPT !.st = vx]))
          [] op = "ADD_I_VX" -> Ok(Advance([c EXCEPT !.i = Word(c.i + vx)]))
          [] op = "LD_F_VX" -> Ok(Advance([c EXCEPT !.i = FontOrigin + 5 * (vx % 16)]))
          [] op = "LD_B_VX" -> ExecBcd(c, x)
          [] op = "LD_I_VX" -> ExecDump(c, x)
          [] op = "LD_VX_I" -> ExecLoad(c, x)
          [] OTHER -> Fault(c, "UnknownOpcode")

(***************************************************************************)
(* Inputs of a run: the ROM files, the command lines, the terminal input   *)
(***************************************************************************)
\* the two bytes of an opcode, big-endian
Op(raw) == <<raw \div 256, raw % 256>>

Repeat(bytes, k) ==
    [j \in 1..(k * Len(bytes)) |-> bytes[((j - 1) % Len(bytes)) + 1]]

\* LD V1,3; LD DT,V1; LD ST,V1; LD V2,K; LD V3,DT; SKP V2; JP 206; SKNP V2; JP 206
RomKeys ==
    Op(24835) \o Op(61717) \o Op(61720) \o Op(61962) \o Op(62215)
        \o Op(58014) \o Op(4614) \o Op(58017) \o Op(4614)

\* 17 times CALL 300 at 200..220, RET at 222 (reached with an empty stack),
\* RET at 300
RomRoundTrip ==
    Repeat(Op(8960), 17) \o Op(238) \o Repeat(<<0>>, 220) \o Op(238)

\* CALL 200 at 200: the call nests until the stack is full
RomNested == Op(8704)

\* LD V0,0A; ADD V0,05; CLS; then the zero bytes of fresh memory (Unknown)
RomScenario == <<96, 10, 112, 5, 0, 224>>

\* LD I,FFE; LD V0,60; LD V1,0; LD [I],V1; JP FFE: the program writes
\* LD V0,0 into the last two bytes of memory and runs off the end
RomEdge == Op(45054) \o Op(24672) \o Op(24832) \o Op(61781) \o Op(8190)

\* JP 203; at 203: LD I,FFF; at 205: LD B,V0 (writes past the end of memory)
RomOdd == <<18, 3, 0, 175, 255, 240, 51>>

\* JP 200
RomSpin == Op(4608)

Roms == {RomKeys, RomRoundTrip, RomNested, RomScenario, RomEdge, RomOdd, RomSpin}

\* env::args() after the program name
ArgVectors == {<<>>, <<"rom.ch8">>, <<"rom.ch8", "-s">>, <<"rom.ch8", "">>}

\* strings a second argument can be: those of ArgVectors, the one of
\* from_some_test, and some that read like a request for normal mode
ArgStrings ==
    UNION {{args[k] : k \in DOMAIN args} : args \in ArgVectors}
        \cup {"-s", "", "normal", "-n", "0"}

\* args.get(k) for the k-th argument after the program name
ArgGet(args, k) == IF k \in DOMAIN args THEN Some(args[k]) ELSE None

\* what easycurses' get_input can deliver: a character or another event
Character(c) == [kind |-> "Character", c |-> c]
OtherInput == [kind |-> "KeyResize", c |-> ""]
InputsOf(chars) == {Character(c) : c \in chars} \cup {OtherInput}

\* the characters typed in a run: mapped keys, the quit key, an unmapped key
TypedChars == {MAPPING[k] : k \in 1..MaxTypedKeys} \cup {",", "p"}
AllChars == {MAPPING[k] : k \in DOMAIN MAPPING} \cup {",", "p"}

\* the bytes the random source may deliver to RND
RndBytes == {0, 165, 255}
\* the random source is read by RND alone
RndFor(instr) == IF instr.op = "RND" THEN RndBytes ELSE {0}

(***************************************************************************)
(* State                                                                   *)
(***************************************************************************)
VARIABLES
    at,            \* where the driver stands (see the actions)
    rm,            \* the RunMode
    rom,           \* the bytes of the ROM file loaded
    ch,            \* the Emulator
    oldk,          \* chip_loop: the key the driver tracks
    next_instr,    \* chip_loop: the instruction fetched for the next exec
    since_input,   \* last_input.elapsed(), saturating above min_press_durarion
    frame_elapsed, \* top_of_loop.elapsed(), saturating at frame_target_duration
    res,           \* the result of the latest exec ("NoExec" before the first)
    dt_st,         \* the pair the latest tick returned (render_dt_st shows it)
    log            \* the calls of the current loop iteration, in order: the
                   \* emulator operations, and "input" / "no_input" for what
                   \* get_input returned

vars == <<at, rm, rom, ch, oldk, next_instr, since_input, frame_elapsed, res, dt_st, log>>

\* the saturation points of the two clocks
ElapsedCap == MinPressDuration + 1
FrameCap == FrameTargetDuration

Init ==
    /\ at = "main"
    /\ rm = "Normal"
    /\ rom = <<>>
    /\ ch = NewEmulator
    /\ oldk = None
    /\ next_instr = None
    /\ since_input = 0
    /\ frame_elapsed = 0
    /\ res = "NoExec"
    /\ dt_st = <<0, 0>>
    /\ log = <<>>

(***************************************************************************)
(* Actions                                                                 *)
(***************************************************************************)
Min(a, b) == IF a < b THEN a ELSE b

\* the clocks d time units later
ClocksAfter(d) ==
    /\ since_input' = Min(since_input + d, ElapsedCap)
    /\ frame_elapsed' = Min(frame_elapsed + d, FrameCap)

\* main: no ROM argument prints the usage line and ends; otherwise the second
\* argument selects the run mode and run::emulation begins
Main ==
    /\ at = "main"
    /\ \E args \in ArgVectors :
         IF IsSome(ArgGet(args, 1))
         THEN /\ rm' = RunModeFrom(ArgGet(args, 2))
              /\ at' = "load"
         ELSE /\ rm' = rm
              /\ at' = "exited"
    /\ UNCHANGED <<rom, ch, oldk, next_instr, since_input, frame_elapsed, res, dt_st, log>>

\* run::emulation: loader::load(ch, fname)
Load(roms) ==
    /\ at = "load"
    /\ \E bytes \in roms :
         /\ rom' = bytes
         /\ ch' = load(ch, bytes).ch
    /\ log' = Append(log, "load")
    /\ at' = "store_font"
    /\ UNCHANGED <<rm, oldk, next_instr, since_input, frame_elapsed, res, dt_st>>

\* run::emulation: ch.store_font()
StoreFont ==
    /\ at = "store_font"
    /\ ch' = store_font(ch)
    /\ log' = Append(log, "store_font")
    /\ at' = "chip_loop"
    /\ UNCHANGED <<rm, rom, oldk, next_instr, since_input, frame_elapsed, res, dt_st>>

\* chip_loop up to the loop: the first fetch, the clocks, the curses system
ChipLoopEnter ==
    /\ at = "chip_loop"
    /\ oldk' = None
    /\ next_instr' = fetch(ch)
    /\ since_input' = 0
    /\ frame_elapsed' = 0
    /\ log' = Append(log, "fetch")
    /\ at' = "top"
    /\ UNCHANGED <<rm, rom, ch, res, dt_st>>

\* chip_loop: EasyCurses::initialize_system() gave None
ChipLoopNoCurses ==
    /\ at = "chip_loop"
    /\ oldk' = None
    /\ next_instr' = fetch(ch)
    /\ log' = Append(log, "fetch")
    /\ at' = "exited"
    /\ UNCHANGED <<rm, rom, ch, since_input, frame_elapsed, res, dt_st>>

\* the top of an iteration as it would be if the timers were not ticked while
\* FX0A is pending
LoopTop_NoTickWhileWaiting ==
    /\ at = "top"
    /\ frame_elapsed' = 0
    /\ IF IsSome(next_instr) /\ Unwrap(next_instr).op = "LD_VX_K"
       THEN /\ ch' = ch
            /\ dt_st' = <<ch.dt, ch.st>>
            /\ log' = <<>>
       ELSE /\ ch' = tick(ch).ch
            /\ dt_st' = tick(ch).ret
            /\ log' = <<"tick">>
    /\ at' = "input"
    /\ UNCHANGED <<rm, rom, oldk, next_instr, since_input, res>>

\* the top of an iteration as it would be with a second ch.tick() in it
LoopTop_TickTwice ==
    /\ at = "top"
    /\ frame_elapsed' = 0
    /\ ch' = tick(tick(ch).ch).ch
    /\ dt_st' = tick(ch).ret
    /\ log' = <<"tick">>
    /\ at' = "input"
    /\ UNCHANGED <<rm, rom, oldk, next_instr, since_input, res>>

\* the top of an iteration as it would be if render_keyboard consumed the key
\* states it draws
LoopTop_RenderClearsKeys ==
    /\ at = "top"
    /\ frame_elapsed' = 0
    /\ ch' = [tick(ch).ch EXCEPT !.kbd = [k \in 0..(NumKeys - 1) |-> FALSE]]
    /\ dt_st' = tick(ch).ret
    /\ log' = <<"tick">>
    /\ at' = "input"
    /\ UNCHANGED <<rm, rom, oldk, next_instr, since_input, res>>

\* the top of an iteration: top_of_loop, the render calls (they read the
\* emulator), ch.tick() for render_dt_st, refresh
LoopTop ==
    /\ at = "top"
    /\ frame_elapsed' = 0
    /\ ch' = tick(ch).ch
    /\ dt_st' = tick(ch).ret
    /\ log' = <<"tick">>
    /\ at' = "input"
    /\ UNCHANGED <<rm, rom, oldk, next_instr, since_input, res>>

\* handle_input as it would be without the else: the timeout check runs after
\* an input event too, against the time since the event before it
HandleInputSome_NoElse(ip) ==
    /\ since_input' = 0
    /\ frame_elapsed' = frame_elapsed
    /\ IF ip.kind = "Character" /\ ip.c = ","
       THEN /\ at' = "wait_quit"
            /\ log' = Append(log, "input")
            /\ UNCHANGED <<ch, oldk>>
       ELSE /\ at' = "exec"
            /\ IF ip.kind = "Character" /\ IsSome(map_key_to_base16(ip.c))
               THEN LET newk == Unwrap(map_key_to_base16(ip.c))
                    IN  IF since_input > MinPressDuration
                        THEN /\ ch' = key_released(key_pressed(ch, oldk, newk))
                             /\ oldk' = None
                             /\ log' = log \o <<"input", "key_pressed", "key_released">>
                        ELSE /\ ch' = key_pressed(ch, oldk, newk)
                             /\ oldk' = Some(newk)
                             /\ log' = log \o <<"input", "key_pressed">>
               ELSE /\ log' = Append(log, "input")
                    /\ UNCHANGED <<ch, oldk>>

\* handle_input as it would be with oldk.replace(newk) before
\* ch.key_pressed(oldk.take(), newk)
HandleInputSome_ReplaceFirst(ip) ==
    /\ since_input' = 0
    /\ frame_elapsed' = frame_elapsed
    /\ IF ip.kind = "Character" /\ ip.c = ","
       THEN /\ at' = "wait_quit"
            /\ log' = Append(log, "input")
            /\ UNCHANGED <<ch, oldk>>
       ELSE /\ at' = "exec"
            /\ IF ip.kind = "Character" /\ IsSome(map_key_to_base16(ip.c))
               THEN LET newk == Unwrap(map_key_to_base16(ip.c))
                    IN  /\ ch' = key_pressed(ch, Some(newk), newk)
                        /\ oldk' = Some(newk)
                        /\ log' = log \o <<"input", "key_pressed">>
               ELSE /\ log' = Append(log, "input")
                    /\ UNCHANGED <<ch, oldk>>

\* handle_input as it would be if the quit key also released the tracked key
HandleInputSome_QuitReleasesKey(ip) ==
    /\ since_input' = 0
    /\ frame_elapsed' = frame_elapsed
    /\ IF ip.kind = "Character" /\ ip.c = ","
       THEN /\ at' = "wait_quit"
            /\ ch' = key_released(ch)
            /\ oldk' = None
            /\ log' = Append(log, "input")
       ELSE /\ at' = "exec"
            /\ IF ip.kind = "Character" /\ IsSome(map_key_to_base16(ip.c))
               THEN LET newk == Unwrap(map_key_to_base16(ip.c))
                    IN  /\ ch' = key_pressed(ch, oldk, newk)
                        /\ oldk' = Some(newk)
                        /\ log' = log \o <<"input", "key_pressed">>
               ELSE /\ log' = Append(log, "input")
                    /\ UNCHANGED <<ch, oldk>>

\* handle_input with get_input() = Some(ip)
HandleInputSome(ip) ==
    /\ since_input' = 0
    /\ frame_elapsed' = frame_elapsed
    /\ IF ip.kind = "Character" /\ ip.c = ","
       THEN /\ at' = "wait_quit"
            /\ log' = Append(log, "input")
            /\ UNCHANGED <<ch, oldk>>
       ELSE /\ at' = "exec"
            /\ IF ip.kind = "Character" /\ IsSome(map_key_to_base16(ip.c))
               THEN LET newk == Unwrap(map_key_to_base16(ip.c))
                    IN  /\ ch' = key_pressed(ch, oldk, newk)
                        /\ oldk' = Some(newk)
                        /\ log' = log \o <<"input", "key_pressed">>
               ELSE /\ log' = Append(log, "input")
                    /\ UNCHANGED <<ch, oldk>>

\* handle_input as it would be with last_input taken anew on every call, not
\* only when an event was read
HandleInputNone_ResetsClock ==
    /\ at' = "exec"
    /\ IF since_input > MinPressDuration
       THEN /\ ch' = key_released(ch)
            /\ oldk' = None
            /\ log' = log \o <<"no_input", "key_released">>
       ELSE /\ log' = Append(log, "no_input")
            /\ UNCHANGED <<ch, oldk>>
    /\ since_input' = 0
    /\ UNCHANGED frame_elapsed

\* handle_input as it would be releasing as soon as the window is reached
\* (elapsed >= min_press_durarion)
HandleInputNone_ReleasesAtWindow ==
    /\ at' = "exec"
    /\ IF since_input >= MinPressDuration
       THEN /\ ch' = key_released(ch)
            /\ oldk' = None
            /\ log' = log \o <<"no_input", "key_released">>
       ELSE /\ log' = Append(log, "no_input")
            /\ UNCHANGED <<ch, oldk>>
    /\ UNCHANGED <<since_input, frame_elapsed>>

\* handle_input as it would be without oldk.take() after ch.key_released()
HandleInputNone_KeepsTracked ==
    /\ at' = "exec"
    /\ IF since_input > MinPressDuration
       THEN /\ ch' = key_released(ch)
            /\ oldk' = oldk
            /\ log' = log \o <<"no_input", "key_released">>
       ELSE /\ log' = Append(log, "no_input")
            /\ UNCHANGED <<ch, oldk>>
    /\ UNCHANGED <<since_input, frame_elapsed>>

\* handle_input with get_input() = None
HandleInputNone ==
    /\ at' = "exec"
    /\ IF since_input > MinPressDuration
       THEN /\ ch' = key_released(ch)
            /\ oldk' = None
            /\ log' = log \o <<"no_input", "key_released">>
       ELSE /\ log' = Append(log, "no_input")
            /\ UNCHANGED <<ch, oldk>>
    /\ UNCHANGED <<since_input, frame_elapsed>>

\* an input event is there when handle_input reads (either timeout mode)
InputEvent(chars) ==
    /\ at = "input"
    /\ \E ip \in InputsOf(chars) : HandleInputSome(ip)
    /\ UNCHANGED <<rm, rom, next_instr, res, dt_st>>

\* no input is there: with TimeoutMode::Immediate get_input returns None at
\* once; with TimeoutMode::Never it does not return
InputPoll ==
    /\ at = "input"
    /\ TimeoutModeOf(rm) = "Immediate"
    /\ HandleInputNone
    /\ UNCHANGED <<rm, rom, next_instr, res, dt_st>>

\* chip_loop as it would be with the fetch for the next iteration taken before
\* the exec of this one
ExecStep_FetchBeforeExec ==
    /\ at = "exec"
    /\ IsSome(next_instr)
    /\ \E r \in {exec(ch, Unwrap(next_instr), rnd) : rnd \in RndFor(Unwrap(next_instr))} :
         /\ ch' = r.ch
         /\ res' = r.res
         /\ next_instr' = fetch(ch)
    /\ log' = log \o <<"exec", "fetch">>
    /\ at' = "throttle"
    /\ UNCHANGED <<rm, rom, oldk, since_input, frame_elapsed, dt_st>>

\* chip_loop: exec of the fetched instruction (its result is dropped), then
\* the fetch for the next iteration
ExecStep ==
    /\ at = "exec"
    /\ IsSome(next_instr)
    /\ \E r \in {exec(ch, Unwrap(next_instr), rnd) : rnd \in RndFor(Unwrap(next_instr))} :
         /\ ch' = r.ch
         /\ res' = r.res
         /\ next_instr' = fetch(r.ch)
    /\ log' = log \o <<"exec", "fetch">>
    /\ at' = "throttle"
    /\ UNCHANGED <<rm, rom, oldk, since_input, frame_elapsed, dt_st>>

\* chip_loop: nothing was fetched: "No more instructions to excute", break
NoMoreInstructions ==
    /\ at = "exec"
    /\ next_instr = None
    /\ at' = "wait_quit"
    /\ UNCHANGED <<rm, rom, ch, oldk, next_instr, since_input, frame_elapsed, res, dt_st, log>>

\* chip_loop: sleep for what remains of the frame, then the next iteration
Throttle ==
    /\ at = "throttle"
    /\ ClocksAfter(FrameTargetDuration - frame_elapsed)
    /\ at' = "top"
    /\ UNCHANGED <<rm, rom, ch, oldk, next_instr, res, dt_st, log>>

\* wait_to_quit: a blocking read of any input, then chip_loop returns
WaitToQuit(chars) ==
    /\ at = "wait_quit"
    /\ \E ip \in InputsOf(chars) : at' = "exited"
    /\ UNCHANGED <<rm, rom, ch, oldk, next_instr, since_input, frame_elapsed, res, dt_st, log>>

\* time passes while the loop runs (rendering, waiting for input, executing)
Elapse ==
    /\ at \in {"top", "input", "exec", "throttle"}
    /\ since_input < ElapsedCap \/ frame_elapsed < FrameCap
    /\ ClocksAfter(1)
    /\ UNCHANGED <<at, rm, rom, ch, oldk, next_instr, res, dt_st, log>>

NextOf(chars, roms) ==
    \/ Main
    \/ Load(roms)
    \/ StoreFont
    \/ ChipLoopEnter
    \/ ChipLoopNoCurses
    \/ LoopTop
    \/ InputEvent(chars)
    \/ InputPoll
    \/ ExecStep
    \/ NoMoreInstructions
    \/ Throttle
    \/ WaitToQuit(chars)
    \/ Elapse

Next == NextOf(TypedChars, Roms)

Spec == Init /\ [][Next]_vars

\* the steps the program takes by itself: every step but the arrival of input
\* and the passing of time.  The program is sequential and none of these steps
\* blocks, so one of them is taken whenever one is possible.
Progress ==
    \/ Main
    \/ Load(Roms)
    \/ StoreFont
    \/ ChipLoopEnter
    \/ ChipLoopNoCurses
    \/ LoopTop
    \/ InputPoll
    \/ ExecStep
    \/ NoMoreInstructions
    \/ Throttle

FairSpec == Spec /\ WF_vars(Progress)

\* runs in which every one of the 16 mapped keys may be typed
KeyRoms == {RomSpin, RomEdge}
KeyNext == NextOf(AllChars, KeyRoms)
KeySpec == Init /\ [][KeyNext]_vars

(***************************************************************************)
(* Vocabulary of the properties                                            *)
(***************************************************************************)
\* the emulator calls a step makes, in order (LoopTop starts a fresh log)
NewCalls ==
    IF at = "top" /\ at' = "input" THEN log'
    ELSE SubSeq(log', Len(log) + 1, Len(log'))

\* the step calls the emulator operation op
Calls(op) == \E k \in DOMAIN NewCalls : NewCalls[k] = op

\* how often op was called in the current iteration
CountOf(op) == Cardinality({k \in DOMAIN log : log[k] = op})

Faults == {"AddressOutOfRange", "StackOverflow", "StackUnderflow", "UnknownOpcode"}

\* op is in the log of the current iteration
Logged(op) == \E k \in DOMAIN log : log[k] = op

\* the loop is iterating
InLoop == at \in {"top", "input", "exec", "throttle"}

\* the step is ExecStep, and the instruction it executes
ExecNow == at = "exec" /\ at' = "throttle"
CurInstr == Unwrap(next_instr)

\* some key of the emulator's keyboard is down
Held == KeysDown(ch.kbd) # {}

(***************************************************************************)
(* C1.  After an exec that faulted (AddressOutOfRange, StackOverflow,      *)
(* StackUnderflow, UnknownOpcode) chip_loop calls neither exec nor tick    *)
(* again.                                                                  *)
(***************************************************************************)
C1_FaultAbortsLoop ==
    [][(res \in Faults) => ~(Calls("exec") \/ Calls("tick"))]_vars

(***************************************************************************)
(* C2.  FX0A does not advance: executed with no key down it leaves the     *)
(* emulator (PC included) as it was and the following fetch returns the    *)
(* same FX0A, so the next iteration executes it again; executed in an      *)
(* iteration in which handle_input forwarded a key press it completes: PC  *)
(* advances by 2 and Vx holds the key.                                     *)
(***************************************************************************)
C2_WaitKeyDoesNotAdvance ==
    [][(ExecNow /\ CurInstr.op = "LD_VX_K") =>
          /\ ~Held => /\ ch' = ch
                      /\ next_instr' = next_instr
                      /\ res' = "Ok"
          /\ Logged("key_pressed") =>
                      /\ ch'.pc = ch.pc + 2
                      /\ ch'.regs[CurInstr.x] = Unwrap(oldk)
                      /\ res' = "Ok"]_vars

\* FX0A of RomKeys completed with key 1 in the iteration that forwarded the
\* press, after both timers had run out while it waited
C2_Witness ==
    /\ rom = RomKeys /\ at = "throttle"
    /\ ch.pc = 520 /\ ch.regs[2] = 1 /\ ch.regs[3] = 0
    /\ ch.dt = 0 /\ ch.st = 0
    /\ Logged("key_pressed")

(***************************************************************************)
(* C3.  Whatever input the driver has processed, at most one of the 16     *)
(* keys is down.                                                           *)
(***************************************************************************)
C3_AtMostOneKeyDown == Cardinality(KeysDown(ch.kbd)) <= 1

\* key 0 was read by FX0A (V2 = 0, PC past 0x206) and key 1 is the key down
C3_Witness ==
    /\ rom = RomKeys /\ ch.pc = 522 /\ ch.regs[2] = 0
    /\ KeysDown(ch.kbd) = {1} /\ oldk = Some(1)

(***************************************************************************)
(* C4.  For all keys a, b of 0..15: key_pressed(None, a) on a keyboard     *)
(* with no key down leaves a the only key down; key_pressed(Some(a), b)    *)
(* while a is tracked clears a, sets b and tracks b; key_released() while  *)
(* b is tracked clears b, forgets the tracked key and leaves no key down.  *)
(***************************************************************************)
C4_KeyProtocol ==
    [][/\ Calls("key_pressed") =>
            LET b == Unwrap(oldk')
            IN  /\ (oldk = None /\ ~Held) => KeysDown(ch'.kbd) = {b}
                /\ (IsSome(oldk) /\ ch.key = oldk) =>
                      /\ Unwrap(oldk) # b => ~ch'.kbd[Unwrap(oldk)]
                      /\ ch'.kbd[b]
                      /\ ch'.key = Some(b)
       /\ (Calls("key_released") /\ IsSome(ch.key)) =>
            /\ ~ch'.kbd[Unwrap(ch.key)]
            /\ ch'.key = None
            /\ KeysDown(ch'.kbd) = {}]_vars

\* key 7 is the key down and tracked, pressed in this iteration
C4_Witness ==
    /\ KeysDown(ch.kbd) = {7} /\ ch.key = Some(7) /\ oldk = Some(7)
    /\ Logged("key_pressed") /\ at = "exec"

(***************************************************************************)
(* C5.  Debounce release is live in every run mode: whenever a key is down *)
(* and no fresh input event arrives, the loop calls key_released once the  *)
(* debounce window has passed, so the key comes up.                        *)
(***************************************************************************)
C5_ReleaseIsLive == Held ~> (~Held \/ Logged("input"))

(***************************************************************************)
(* C5, amended.  In Normal mode, while the loop keeps iterating, a key     *)
(* that is down comes up unless a fresh input event arrives; in Stepwise   *)
(* mode the read of the input blocks and key_released is never called.     *)
(***************************************************************************)
C5_ReleaseIsLiveInNormalMode ==
    /\ (rm = "Normal" /\ InLoop /\ Held) ~> (~Held \/ Logged("input") \/ ~InLoop)
    /\ [][(rm = "Stepwise") => ~Calls("key_released")]_vars

\* Normal mode: a key that FX0A had read was released by the timeout
C5_Witness ==
    /\ rm = "Normal" /\ rom = RomKeys /\ ch.pc = 520 /\ at = "exec"
    /\ Logged("key_released") /\ ~Held /\ oldk = None

(***************************************************************************)
(* C6.  tick is called exactly once in every loop iteration, whatever      *)
(* instruction is pending: the step from the top of the loop is one tick   *)
(* that counts both timers down, and no other step ticks; so the timers    *)
(* keep running down while FX0A waits.                                     *)
(***************************************************************************)
C6_TickOncePerIteration ==
    [][/\ (at = "top" /\ at' # "top") =>
            /\ NewCalls = <<"tick">>
            /\ ch'.dt = (IF ch.dt > 0 THEN ch.dt - 1 ELSE 0)
            /\ ch'.st = (IF ch.st > 0 THEN ch.st - 1 ELSE 0)
       /\ (at # "top") => ~Calls("tick")
       /\ (at' \in {"input", "exec", "throttle"}) =>
            Cardinality({k \in DOMAIN log' : log'[k] = "tick"}) = 1]_vars

\* FX0A of RomKeys is pending and the tick of this iteration took the sound
\* timer from 1 to 0 (the delay timer was at 0 already)
C6_Witness ==
    /\ rom = RomKeys /\ ch.pc = 518 /\ at = "input"
    /\ IsSome(next_instr) /\ Unwrap(next_instr).op = "LD_VX_K"
    /\ dt_st = <<0, 1>> /\ ch.dt = 0 /\ ch.st = 0

(***************************************************************************)
(* C7.  SP stays within 0..16; CALL followed by RET restores PC to the     *)
(* address after the CALL and SP to its value before; doing this 16 times  *)
(* in a row succeeds and the 17th CALL fails with StackOverflow.           *)
(* RomRoundTrip does CALL 300 / RET 17 times; its 17th CALL is at 0x220.   *)
(***************************************************************************)
C7_SeventeenthRoundTripOverflows ==
    [][ExecNow =>
         /\ ch'.sp \in 0..StackSize
         /\ (CurInstr.op = "RET" /\ ch.sp > 0) =>
               /\ ch'.pc = ch.stack[ch.sp - 1]
               /\ ch'.sp = ch.sp - 1
         /\ (CurInstr.op = "CALL" /\ rom = RomRoundTrip /\ ch.pc = 544) =>
               res' = "StackOverflow"]_vars

(***************************************************************************)
(* C7, amended.  SP stays within 0..16; CALL with SP < 16 pushes the       *)
(* address after the CALL, adds 1 to SP and jumps; RET with SP > 0 returns *)
(* to the address pushed last and takes 1 from SP, so a CALL followed by   *)
(* RET restores PC to the address after the CALL and SP to its value       *)
(* before, any number of times; CALL fails with StackOverflow exactly when *)
(* SP is 16, that is when 16 CALLs are open with no RET between.           *)
(***************************************************************************)
C7_CallStackProtocol ==
    [][ExecNow =>
         /\ ch'.sp \in 0..StackSize
         /\ (CurInstr.op = "CALL" /\ ch.sp < StackSize) =>
               /\ res' = "Ok"
               /\ ch'.sp = ch.sp + 1
               /\ ch'.stack[ch.sp] = ch.pc + 2
               /\ ch'.pc = CurInstr.nnn
         /\ (CurInstr.op = "CALL" /\ ch.sp = StackSize) =>
               /\ res' = "StackOverflow"
               /\ ch' = ch
         /\ (CurInstr.op = "RET" /\ ch.sp > 0) =>
               /\ res' = "Ok"
               /\ ch'.pc = ch.stack[ch.sp - 1]
               /\ ch'.sp = ch.sp - 1]_vars

\* RomNested: 16 CALLs are open and the 17th has failed
C7_Witness ==
    /\ rom = RomNested /\ ch.sp = StackSize /\ res = "StackOverflow"
    /\ \A k \in 0..(StackSize - 1) : ch.stack[k] = 514

(***************************************************************************)
(* C8.  RET with SP = 0 fails with StackUnderflow and changes nothing: PC, *)
(* SP, the stack, V0..VF, I, memory, display, keyboard and both timers are *)
(* as before.                                                              *)
(***************************************************************************)
C8_RetUnderflowChangesNothing ==
    [][(ExecNow /\ CurInstr.op = "RET" /\ ch.sp = 0) =>
          /\ res' = "StackUnderflow"
          /\ ch' = ch]_vars

\* RomRoundTrip: the RET at 0x222 was executed with an empty stack
C8_Witness ==
    /\ rom = RomRoundTrip /\ ch.pc = 546 /\ ch.sp = 0
    /\ res = "StackUnderflow" /\ at = "throttle"

(***************************************************************************)
(* C9.  tick returns the pair (delay, sound) as it was and then takes 1    *)
(* from each nonzero timer; a timer at 0 stays 0 (no wrap to 255); a timer *)
(* rises only by exec of FX15 (delay) or FX18 (sound).                     *)
(***************************************************************************)
C9_TimersFloorAtZero ==
    [][/\ Calls("tick") =>
            /\ dt_st' = <<ch.dt, ch.st>>
            /\ ch'.dt = (IF ch.dt = 0 THEN 0 ELSE ch.dt - 1)
            /\ ch'.st = (IF ch.st = 0 THEN 0 ELSE ch.st - 1)
       /\ (ch'.dt > ch.dt) => (ExecNow /\ CurInstr.op = "LD_DT_VX")
       /\ (ch'.st > ch.st) => (ExecNow /\ CurInstr.op = "LD_ST_VX")
       /\ ch'.dt \in 0..255 /\ ch'.st \in 0..255]_vars

\* RomKeys set both timers to 3; they ran out, and the latest tick, on timers
\* at 0, returned (0, 0) and left them at 0
C9_Witness ==
    /\ rom = RomKeys /\ ch.regs[1] = 3 /\ ch.pc = 518 /\ at = "input"
    /\ dt_st = <<0, 0>> /\ ch.dt = 0 /\ ch.st = 0

(***************************************************************************)
(* C10.  In every state reached by load and successful exec steps PC is    *)
(* even and less than 4096.                                                *)
(***************************************************************************)
C10_PcEvenAndInRange ==
    (res \notin Faults) => (ch.pc % 2 = 0 /\ ch.pc < MemSize)

(***************************************************************************)
(* C10, amended.  Every instruction is fetched and executed at a PC below  *)
(* 4095; JP and CALL set PC to their 12-bit target and JP V0 and RET to    *)
(* theirs, whatever its parity; every other successful exec leaves PC as   *)
(* it is (FX0A waiting) or adds 2 or 4 to it, so PC keeps its parity       *)
(* between jumps, and it can reach 4096 and beyond, where the next fetch   *)
(* returns nothing.                                                        *)
(***************************************************************************)
C10_PcRule ==
    [][ExecNow =>
         /\ ch.pc + 1 < MemSize
         /\ (res' = "Ok" /\ CurInstr.op \in {"JP", "CALL"}) => ch'.pc = CurInstr.nnn
         /\ (res' = "Ok" /\ CurInstr.op \notin {"JP", "CALL", "JP_V0", "RET"}) =>
               ch'.pc \in {ch.pc, ch.pc + 2, ch.pc + 4}
         /\ (res' # "Ok") => ch'.pc = ch.pc
         /\ ch'.pc < MemSize + 255
         /\ (ch'.pc + 1 >= MemSize) = (next_instr' = None)]_vars

\* RomOdd: PC is odd after two successful exec steps
C10_Witness ==
    /\ rom = RomOdd /\ ch.pc = 517 /\ res = "Ok" /\ at = "throttle"

(***************************************************************************)
(* C11.  In every run the font sprites are written into the reserved low   *)
(* region exactly once, before the program is loaded and before any        *)
(* instruction is fetched or executed: load is called only after           *)
(* store_font, store_font is not called a second time, and at every fetch  *)
(* and exec the font is in memory.                                         *)
(***************************************************************************)
C11_FontStoredBeforeLoad ==
    [][/\ Calls("load") => Logged("store_font")
       /\ Calls("store_font") => ~Logged("store_font")
       /\ (Calls("fetch") \/ Calls("exec")) =>
             \A k \in 1..Len(FONT) : ch.mem[FontOrigin + k - 1] = FONT[k]]_vars

(***************************************************************************)
(* C12.  Rendering never changes core state.  The steps that only render   *)
(* (render_frame and render_status on entering chip_loop, render_status at *)
(* "No more instructions", wait_to_quit, the sleep) leave the emulator as  *)
(* it is; the top of an iteration (render_cpu, render_display,             *)
(* render_keyboard, render_step, render_dt_st of the tick) changes nothing *)
(* but what its tick does to the two timers; inside the loop the emulator  *)
(* changes only in steps that call exec, tick, key_pressed or              *)
(* key_released; and the keyboard changes only in steps that call          *)
(* key_pressed or key_released.                                            *)
(***************************************************************************)
C12_RenderingReadsOnly ==
    [][/\ (at \in {"chip_loop", "throttle", "wait_quit", "exited"}) => ch' = ch
       /\ (at = "exec" /\ at' = "wait_quit") => ch' = ch
       /\ (at = "top") => [ch' EXCEPT !.dt = ch.dt, !.st = ch.st] = ch
       /\ (InLoop /\ ch' # ch) =>
             \/ Calls("exec") \/ Calls("tick")
             \/ Calls("key_pressed") \/ Calls("key_released")
       /\ (ch'.kbd # ch.kbd \/ ch'.key # ch.key) =>
             (Calls("key_pressed") \/ Calls("key_released"))]_vars

\* RomKeys: an iteration has just rendered and ticked with a key held, the
\* registers set and the delay timer running
C12_Witness ==
    /\ rom = RomKeys /\ at = "input" /\ log = <<"tick">>
    /\ Held /\ ch.regs[1] = 3 /\ dt_st = <<3, 0>> /\ ch.dt = 2

(***************************************************************************)
(* C13.  Stopping is the loop's decision.  The step that reads the quit    *)
(* key ',' leaves the loop at once: it calls nothing on the emulator,      *)
(* changes no key state and not the tracked key, and the pending           *)
(* instruction is not executed; once the loop has ended no exec, tick,     *)
(* key_pressed or key_released is called and the emulator stays as it is.  *)
(***************************************************************************)
C13_QuitStopsTheLoop ==
    [][/\ (at = "input" /\ at' = "wait_quit") =>
             /\ NewCalls = <<"input">>
             /\ ch' = ch
             /\ oldk' = oldk
             /\ next_instr' = next_instr
             /\ res' = res
       /\ (at \in {"wait_quit", "exited"}) =>
             /\ at' \in {"wait_quit", "exited"}
             /\ NewCalls = <<>>
             /\ ch' = ch]_vars

\* RomKeys: the quit key was read while key 1 was held and FX0A was pending;
\* the key is still down and FX0A was not executed
C13_Witness ==
    /\ rom = RomKeys /\ at = "wait_quit" /\ log = <<"tick", "input">>
    /\ IsSome(next_instr) /\ Unwrap(next_instr).op = "LD_VX_K"
    /\ KeysDown(ch.kbd) = {1} /\ oldk = Some(1) /\ ch.pc = 518

(***************************************************************************)
(* C14.  The run mode depends only on whether a second argument is there:  *)
(* RunMode::from(None) is Normal and RunMode::from(Some(s)) is Stepwise    *)
(* for every string s, and main enters run::emulation in Stepwise mode     *)
(* exactly when its argument vector has a second argument.                 *)
(***************************************************************************)
C14_RunModeFromPresence ==
    [][/\ RunModeFrom(None) = "Normal"
       /\ \A s \in ArgStrings : RunModeFrom(Some(s)) = "Stepwise"
       /\ (at = "main" /\ at' = "load") =>
             \E args \in ArgVectors :
                /\ 1 \in DOMAIN args
                /\ rm' = RunModeFrom(ArgGet(args, 2))
                /\ (rm' = "Stepwise") = (2 \in DOMAIN args)]_vars

\* main has chosen Stepwise from a second argument and has loaded the ROM
C14_Witness ==
    /\ at = "store_font" /\ rm = "Stepwise" /\ rom # <<>>

(***************************************************************************)
(* C15.  Instruction lifecycle in the loop.  The instruction a step passes *)
(* to exec is the decoding of the two bytes at the PC of that moment; the  *)
(* step that executes it also fetches its successor, so no fetched         *)
(* instruction is executed twice; and between a fetch and the exec of what *)
(* it returned no step changes PC, memory or the fetched instruction: the  *)
(* tick, key_pressed and key_released calls in between leave PC and memory *)
(* alone.                                                                  *)
(***************************************************************************)
C15_InstructionLifecycle ==
    [][/\ ExecNow =>
             /\ next_instr = fetch(ch)
             /\ NewCalls = <<"exec", "fetch">>
             /\ next_instr' = fetch(ch')
       /\ (InLoop /\ ~ExecNow) =>
             /\ ~Calls("exec") /\ ~Calls("fetch")
             /\ next_instr' = next_instr
             /\ ch'.pc = ch.pc
             /\ ch'.mem = ch.mem
       /\ (Calls("tick") \/ Calls("key_pressed") \/ Calls("key_released")) =>
             (ch'.pc = ch.pc /\ ch'.mem = ch.mem)]_vars

\* RomEdge has written the bytes 60 00 to 0xFFE and jumped there: the
\* instruction about to be executed was fetched from memory the program wrote,
\* and a tick and a key_pressed have come between its fetch and its exec
C15_Witness ==
    /\ rom = RomEdge /\ at = "exec" /\ ch.pc = 4094
    /\ ch.mem[4094] = 96 /\ ch.mem[4095] = 0
    /\ next_instr = fetch(ch) /\ IsSome(next_instr)
    /\ Unwrap(next_instr).op = "LD_VX_KK"
    /\ Logged("tick") /\ Logged("key_pressed")

(***************************************************************************)
(* C16.  Debounce safety.  key_released is called only by a handle_input   *)
(* that read no input event, and only when more than the minimum press     *)
(* duration (1/20 s) has elapsed since the latest input event of any kind  *)
(* (since the start of the loop when there was none yet); a key that is    *)
(* down goes up only in such a step or in a step that presses a key.       *)
(***************************************************************************)
C16_DebounceSafety ==
    [][/\ Calls("key_released") =>
             /\ at = "input"
             /\ NewCalls = <<"no_input", "key_released">>
             /\ since_input > MinPressDuration
       /\ \A k \in 0..(NumKeys - 1) :
             (ch.kbd[k] /\ ~ch'.kbd[k]) =>
                \/ Calls("key_released") /\ since_input > MinPressDuration
                \/ Calls("key_pressed") /\ ~Calls("key_released")
                      /\ KeysDown(ch'.kbd) # {}]_vars

\* RomKeys: key 1 was pressed and read by FX0A; an iteration without input,
\* more than MinPressDuration after the press, has released it
C16_Witness ==
    /\ rom = RomKeys /\ at = "exec" /\ ch.regs[2] = 1
    /\ log = <<"tick", "no_input", "key_released">>
    /\ since_input = MinPressDuration + 1
    /\ KeysDown(ch.kbd) = {} /\ ch.key = None /\ oldk = None

(***************************************************************************)
(* C17.  In Stepwise mode the loop pauses for input in every iteration:    *)
(* handle_input never returns without an input event, and an exec comes    *)
(* only after exactly one input event of its iteration and is the only     *)
(* exec of that iteration, so there are never more instructions executed   *)
(* than input events received.  In Normal mode the poll does not block:    *)
(* the loop always gets past handle_input, with or without input.          *)
(***************************************************************************)
C17_StepwisePausesForInput ==
    /\ [][(rm = "Stepwise") =>
             /\ ~Calls("no_input")
             /\ ExecNow =>
                   /\ Cardinality({k \in DOMAIN log : log[k] = "input"}) = 1
                   /\ ~Logged("no_input")
                   /\ ~Logged("exec")]_vars
    /\ (rm = "Normal" /\ at = "input") ~> (at # "input")

\* Stepwise: two instructions of RomKeys were executed one input event each,
\* the second after an event that is no key (an unmapped character or a
\* non-character input)
C17_Witness ==
    /\ rm = "Stepwise" /\ rom = RomKeys /\ at = "throttle" /\ ch.pc = 516
    /\ log = <<"tick", "input", "exec", "fetch">>

\* the tracked key o mirrors the keyboard: None with no key down, Some(k) with
\* k the one key down
Mirrors(o, kbd) ==
    IF o = None THEN KeysDown(kbd) = {} ELSE KeysDown(kbd) = {Unwrap(o)}

(***************************************************************************)
(* C18.  The driver's tracked key mirrors the keyboard: before and after   *)
(* every handle_input call (and in every other state) oldk is Some(k)      *)
(* exactly when k is the one key down and None exactly when all 16 keys    *)
(* are up; a handle_input that read an input event and pressed no key (an  *)
(* unmapped character, a non-character input, the quit key) changes        *)
(* neither oldk nor any key state.                                         *)
(***************************************************************************)
C18_TrackedKeyMirrorsKeyboard ==
    [][/\ Mirrors(oldk, ch.kbd)
       /\ Mirrors(oldk', ch'.kbd)
       /\ (at = "input" /\ NewCalls = <<"input">>) =>
             (oldk' = oldk /\ ch'.kbd = ch.kbd /\ ch'.key = ch.key)]_vars

\* key 15 ('v') is held and tracked, and this iteration's handle_input read an
\* input that is no key: both are as they were
C18_Witness ==
    /\ at = "exec" /\ log = <<"tick", "input">>
    /\ oldk = Some(15) /\ KeysDown(ch.kbd) = {15} /\ ch.key = Some(15)

(***************************************************************************)
(* C19.  A key press is not lost before the CPU can see it.  When the      *)
(* handle_input of an iteration has forwarded key_pressed(_, k) and the    *)
(* loop goes on, the exec of that iteration runs with key k down: the      *)
(* press is the last call before the exec, the only press of the           *)
(* iteration, and no key_released has come after it; so SKP on k skips,    *)
(* SKNP on k does not, and FX0A completes with k in Vx.                    *)
(***************************************************************************)
C19_PressReachesExec ==
    [][/\ Calls("key_pressed") =>
             /\ at' = "exec"
             /\ IsSome(oldk') /\ ch'.kbd[Unwrap(oldk')]
       /\ (ExecNow /\ Logged("key_pressed")) =>
             /\ log[Len(log)] = "key_pressed"
             /\ Cardinality({j \in DOMAIN log : log[j] = "key_pressed"}) = 1
             /\ ~Logged("key_released")
             /\ IsSome(oldk) /\ ch.kbd[Unwrap(oldk)]
             /\ (CurInstr.op = "SKP" /\ ch.regs[CurInstr.x] = Unwrap(oldk)) =>
                   ch'.pc = ch.pc + 4
             /\ (CurInstr.op = "SKNP" /\ ch.regs[CurInstr.x] = Unwrap(oldk)) =>
                   ch'.pc = ch.pc + 2
             /\ (CurInstr.op = "LD_VX_K") =>
                   (ch'.regs[CurInstr.x] = Unwrap(oldk) /\ ch'.pc = ch.pc + 2)]_vars

\* RomKeys: SKP V2 at 0x20A was executed in the iteration in which the key in
\* V2 was pressed, and it skipped to 0x20E
C19_Witness ==
    /\ rom = RomKeys /\ at = "throttle" /\ ch.pc = 526
    /\ log = <<"tick", "input", "key_pressed", "exec", "fetch">>
    /\ IsSome(oldk) /\ ch.regs[2] = Unwrap(oldk) /\ ch.kbd[ch.regs[2]]

=============================================================================
